---- MODULE Spec2Model ----
(***************************************************************************)
(* dump-dependency: the dependency-extraction pipeline of src/main.rs.     *)
(*                                                                         *)
(* Text (String, PathBuf, the bytes of stdout) is a sequence of one-       *)
(* character strings, so that tokenising, matching, path inspection and    *)
(* ordering are computed character by character as the program does.       *)
(***************************************************************************)
EXTENDS Integers, Sequences, FiniteSets, TLC

VARIABLES
    db,                 \* Vec<CompileCommand> parsed from the database file
    cli,                \* Cli: the two filter flags
    pc,                 \* position of the main thread
    k,                  \* dedup loop: index of the next entry of db
    done_list,          \* dedup loop: files already seen
    compile_commands,   \* unduplicated_compile_commands: indices into db
    dependencies,       \* per-entry Result of the parallel map ("Pending" until run)
    invoked,            \* per-entry argv handed to Command::new, None if never reached
    panicked,           \* a worker closure has panicked
    j,                  \* aggregation loop: index of the next result
    dependency_list,    \* HashSet<PathBuf> built by the aggregation loop
    stdout,             \* every byte written to the process's standard output
    reported,           \* the paths println!-ed by the final loop, in order
    log                 \* records emitted through warn! / error!

vars == <<db, cli, pc, k, done_list, compile_commands, dependencies, invoked,
          panicked, j, dependency_list, stdout, reported, log>>

\* Option<T>
None == [some |-> FALSE]
Some(x) == [some |-> TRUE, val |-> x]

-----------------------------------------------------------------------------
(* Characters and byte order *)

\* The characters used by the inputs below, in increasing byte value.
Ascii ==
    <<"\t", "\n", "\r", " ", "\"", "#", "$", "'", "-", ".", "/",
      "0", "1", "2", ":", "I", "M", "\\",
      "a", "b", "c", "d", "e", "f", "h", "i", "k", "l", "n", "o", "p",
      "r", "s", "u", "v", "w", "x">>

\* Rank of a character in byte order (order-isomorphic to its byte value).
Code(c) == CHOOSE i \in DOMAIN Ascii : Ascii[i] = c

\* <[u8] as Ord>::lt, the order of String and of OsStr: lexicographic by byte.
RECURSIVE StrLess(_, _)
StrLess(s, t) ==
    IF t = <<>> THEN FALSE
    ELSE IF s = <<>> THEN TRUE
    ELSE IF Head(s) # Head(t) THEN Code(Head(s)) < Code(Head(t))
    ELSE StrLess(Tail(s), Tail(t))

\* str::starts_with
StrStartsWith(s, pre) ==
    /\ Len(pre) <= Len(s)
    /\ SubSeq(s, 1, Len(pre)) = pre

-----------------------------------------------------------------------------
(* std::path on Unix *)

\* Split at every "/" (empty pieces included).
RECURSIVE SplitSlash(_, _)
SplitSlash(s, cur) ==
    IF s = <<>> THEN <<cur>>
    ELSE IF Head(s) = "/" THEN <<cur>> \o SplitSlash(Tail(s), <<>>)
    ELSE SplitSlash(Tail(s), Append(cur, Head(s)))

RECURSIVE NormalParts(_, _)
NormalParts(parts, first) ==
    IF parts = <<>> THEN <<>>
    ELSE LET p == Head(parts)
             rest == NormalParts(Tail(parts), FALSE)
         IN  IF p = <<>> THEN rest
             ELSE IF p = <<".">> THEN
                 (IF first THEN <<[kind |-> "CurDir", name |-> p]>> \o rest ELSE rest)
             ELSE IF p = <<".", ".">> THEN <<[kind |-> "ParentDir", name |-> p]>> \o rest
             ELSE <<[kind |-> "Normal", name |-> p]>> \o rest

\* Path::components: RootDir for a leading "/", repeated separators and inner
\* "." dropped, a leading "." kept as CurDir.
Components(p) ==
    IF p = <<>> THEN <<>>
    ELSE IF Head(p) = "/"
         THEN <<[kind |-> "RootDir", name |-> <<"/">>]>>
              \o NormalParts(SplitSlash(Tail(p), <<>>), FALSE)
         ELSE NormalParts(SplitSlash(p, <<>>), TRUE)

\* Declaration order of enum Component, which its derived Ord follows.
KindRank(kind) ==
    CASE kind = "RootDir" -> 1
      [] kind = "CurDir" -> 2
      [] kind = "ParentDir" -> 3
      [] kind = "Normal" -> 4

ComponentLess(a, b) ==
    IF a.kind # b.kind THEN KindRank(a.kind) < KindRank(b.kind)
    ELSE a.kind = "Normal" /\ StrLess(a.name, b.name)

RECURSIVE ComponentsLess(_, _)
ComponentsLess(xs, ys) ==
    IF ys = <<>> THEN FALSE
    ELSE IF xs = <<>> THEN TRUE
    ELSE IF Head(xs) # Head(ys) THEN ComponentLess(Head(xs), Head(ys))
    ELSE ComponentsLess(Tail(xs), Tail(ys))

\* <Path as Ord>::lt: lexicographic over components().
PathLess(p, q) == ComponentsLess(Components(p), Components(q))

\* Path::starts_with: base's components are a prefix of p's components.
PathStartsWith(p, base) ==
    LET cp == Components(p)
        cb == Components(base)
    IN  /\ Len(cb) <= Len(cp)
        /\ SubSeq(cp, 1, Len(cb)) = cb

\* Path::file_name: the last component when it is a normal one.
FileName(p) ==
    LET cp == Components(p)
    IN  IF cp # <<>> /\ cp[Len(cp)].kind = "Normal" THEN Some(cp[Len(cp)].name) ELSE None

\* Path::extension: the part of file_name after its last ".", None when the
\* name has no "." or only a leading one.
Extension(p) ==
    LET fname == FileName(p)
    IN  IF ~fname.some THEN None
        ELSE LET name == fname.val
                 dots == {i \in DOMAIN name : name[i] = "."}
             IN  IF dots = {} THEN None
                 ELSE LET d == CHOOSE i \in dots : \A i2 \in dots : i2 <= i
                      IN  IF d = 1 THEN None
                          ELSE Some(SubSeq(name, d + 1, Len(name)))

-----------------------------------------------------------------------------
(* The filesystem the run sees *)

\* What exists on disk, as the process can name it, with the canonical
\* absolute path each name resolves to (the working directory is /w, and
\* ./inc/a.h names the same file as inc/a.h).
FsEntries ==
    { <<(* src/a.c *) <<"s", "r", "c", "/", "a", ".", "c">>,
        (* /w/src/a.c *) <<"/", "w", "/", "s", "r", "c", "/", "a", ".", "c">>>>,
      <<(* inc/a.h *) <<"i", "n", "c", "/", "a", ".", "h">>,
        (* /w/inc/a.h *) <<"/", "w", "/", "i", "n", "c", "/", "a", ".", "h">>>>,
      <<(* ./inc/a.h *) <<".", "/", "i", "n", "c", "/", "a", ".", "h">>,
        (* /w/inc/a.h *) <<"/", "w", "/", "i", "n", "c", "/", "a", ".", "h">>>>,
      <<(* /usr/s.h *) <<"/", "u", "s", "r", "/", "s", ".", "h">>,
        (* /usr/s.h *) <<"/", "u", "s", "r", "/", "s", ".", "h">>>>,
      <<(* /usr/v *) <<"/", "u", "s", "r", "/", "v">>,
        (* /usr/v *) <<"/", "u", "s", "r", "/", "v">>>>,
      <<(* /usrx/k.hpp *) <<"/", "u", "s", "r", "x", "/", "k", ".", "h", "p", "p">>,
        (* /usrx/k.hpp *) <<"/", "u", "s", "r", "x", "/", "k", ".", "h", "p", "p">>>>,
      <<(* /a/b *) <<"/", "a", "/", "b">>, <<"/", "a", "/", "b">>>>,
      <<(* /a-b *) <<"/", "a", "-", "b">>, <<"/", "a", "-", "b">>>> }

\* Path::exists
PathExists(p) == \E e \in FsEntries : e[1] = p

\* Path::canonicalize, of a path that exists
Canonicalize(p) == (CHOOSE e \in FsEntries : e[1] = p)[2]

-----------------------------------------------------------------------------
(* BufRead::lines and the regex of parse_dependency *)

\* BufRead::lines: the pieces that end at each "\n" and the piece after the
\* last one unless it is empty, a "\r" before the "\n" removed.
RECURSIVE LinesFrom(_, _)
LinesFrom(bytes, from) ==
    LET n == Len(bytes)
        Strip(l) == IF l # <<>> /\ l[Len(l)] = "\r" THEN SubSeq(l, 1, Len(l) - 1) ELSE l
    IN  IF from > n THEN <<>>
        ELSE IF \E i \in from .. n : bytes[i] = "\n"
        THEN LET nl == CHOOSE i \in from .. n :
                           bytes[i] = "\n" /\ \A i2 \in from .. i - 1 : bytes[i2] # "\n"
             IN  <<Strip(SubSeq(bytes, from, nl - 1))>> \o LinesFrom(bytes, nl + 1)
        ELSE <<SubSeq(bytes, from, n)>>

Lines(bytes) == LinesFrom(bytes, 1)

\* \s of the regex crate, over the characters of Ascii
IsSpace(c) == c \in {" ", "\t", "\n", "\r"}

\* Regex::captures for \s*(.*) \\ on one line: group 1 of the leftmost match,
\* or None. The search is unanchored: the match starts at the first position s
\* from which one exists; there the greedy \s* keeps the longest whitespace
\* run m that still lets the rest match, the greedy (.*) then runs to the last
\* position e that is followed by " \".
Captures(line) ==
    LET n == Len(line)
        \* positions e such that the continuation marker " \" follows line[e]
        Marks == {e \in 0 .. n - 2 : line[e + 1] = " " /\ line[e + 2] = "\\"}
        SpaceRun(s, m) == \A i \in s .. (s + m - 1) : IsSpace(line[i])
        Feasible(s, m) ==
            /\ s + m - 1 <= n
            /\ SpaceRun(s, m)
            /\ \E e \in Marks : s + m - 1 <= e
    IN  IF Marks = {} THEN None
        ELSE LET s == CHOOSE s1 \in 1 .. n + 1 :
                          Feasible(s1, 0) /\ \A s2 \in 1 .. s1 - 1 : ~Feasible(s2, 0)
                 m == CHOOSE m1 \in 0 .. n :
                          Feasible(s, m1) /\ \A m2 \in m1 + 1 .. n : ~Feasible(s, m2)
                 e == CHOOSE e1 \in Marks : \A e2 \in Marks : e2 <= e1
             IN  Some(SubSeq(line, s + m, e))

-----------------------------------------------------------------------------
(* shell_words::split *)

IsBlank(c) == c \in {"\t", " ", "\n"}

\* The state machine of shell_words::split, one character per step. `st` is
\* its state, `word` the word being built, `words` the finished ones.
\* Result<Vec<String>, ParseError> is [ok, words].
RECURSIVE ShellStep(_, _, _, _)
ShellStep(st, rest, word, words) ==
    LET eof == rest = <<>>
        c == IF eof THEN "" ELSE Head(rest)
        r == IF eof THEN <<>> ELSE Tail(rest)
        Done(ws) == [ok |-> TRUE, words |-> ws]
        Fail == [ok |-> FALSE, words |-> <<>>]
    IN  CASE st = "Delimiter" ->
                IF eof THEN Done(words)
                ELSE IF c = "'" THEN ShellStep("SingleQuoted", r, word, words)
                ELSE IF c = "\"" THEN ShellStep("DoubleQuoted", r, word, words)
                ELSE IF c = "\\" THEN ShellStep("Backslash", r, word, words)
                ELSE IF IsBlank(c) THEN ShellStep("Delimiter", r, word, words)
                ELSE IF c = "#" THEN ShellStep("Comment", r, word, words)
                ELSE ShellStep("Unquoted", r, Append(word, c), words)
          [] st = "Backslash" ->
                IF eof THEN Done(Append(words, Append(word, "\\")))
                ELSE IF c = "\n" THEN ShellStep("Delimiter", r, word, words)
                ELSE ShellStep("Unquoted", r, Append(word, c), words)
          [] st = "Unquoted" ->
                IF eof THEN Done(Append(words, word))
                ELSE IF c = "'" THEN ShellStep("SingleQuoted", r, word, words)
                ELSE IF c = "\"" THEN ShellStep("DoubleQuoted", r, word, words)
                ELSE IF c = "\\" THEN ShellStep("UnquotedBackslash", r, word, words)
                ELSE IF IsBlank(c) THEN ShellStep("Delimiter", r, <<>>, Append(words, word))
                ELSE ShellStep("Unquoted", r, Append(word, c), words)
          [] st = "UnquotedBackslash" ->
                IF eof THEN Done(Append(words, Append(word, "\\")))
                ELSE IF c = "\n" THEN ShellStep("Unquoted", r, word, words)
                ELSE ShellStep("Unquoted", r, Append(word, c), words)
          [] st = "SingleQuoted" ->
                IF eof THEN Fail
                ELSE IF c = "'" THEN ShellStep("Unquoted", r, word, words)
                ELSE ShellStep("SingleQuoted", r, Append(word, c), words)
          [] st = "DoubleQuoted" ->
                IF eof THEN Fail
                ELSE IF c = "\"" THEN ShellStep("Unquoted", r, word, words)
                ELSE IF c = "\\" THEN ShellStep("DoubleQuotedBackslash", r, word, words)
                ELSE ShellStep("DoubleQuoted", r, Append(word, c), words)
          [] st = "DoubleQuotedBackslash" ->
                IF eof THEN Fail
                ELSE IF c = "\n" THEN ShellStep("DoubleQuoted", r, word, words)
                ELSE IF c \in {"$", "\"", "\\"}
                     THEN ShellStep("DoubleQuoted", r, Append(word, c), words)
                ELSE ShellStep("DoubleQuoted", r, Append(Append(word, "\\"), c), words)
          [] st = "Comment" ->
                IF eof THEN Done(words)
                ELSE IF c = "\n" THEN ShellStep("Delimiter", r, word, words)
                ELSE ShellStep("Comment", r, word, words)

ShellSplit(s) == ShellStep("Delimiter", s, <<>>, <<>>)

-----------------------------------------------------------------------------
(* The compiler, as the subprocess the tool runs *)

\* What the toolchain in dependency mode prints for each translation unit.
\* a.o: src/a.c \ / inc/a.h \ / inc/b.h
DepsOfA ==
    <<"a", ".", "o", ":", " ", "s", "r", "c", "/", "a", ".", "c", " ", "\\", "\n",
      " ", " ", "i", "n", "c", "/", "a", ".", "h", " ", "\\", "\n",
      " ", " ", "i", "n", "c", "/", "b", ".", "h", "\n">>

\* b.o: b.c \ then /usr/s.h, /usr/v, /usrx/k.hpp, /a/b, /a-b, ./inc/a.h and
\* src/a.c, each on a continuation line, then inc/b.h on the last line
DepsOfB ==
    <<"b", ".", "o", ":", " ", "b", ".", "c", " ", "\\", "\n",
      " ", "/", "u", "s", "r", "/", "s", ".", "h", " ", "\\", "\n",
      " ", "/", "u", "s", "r", "/", "v", " ", "\\", "\n",
      " ", "/", "u", "s", "r", "x", "/", "k", ".", "h", "p", "p", " ", "\\", "\n",
      " ", "/", "a", "/", "b", " ", "\\", "\n",
      " ", "/", "a", "-", "b", " ", "\\", "\n",
      " ", ".", "/", "i", "n", "c", "/", "a", ".", "h", " ", "\\", "\n",
      " ", "s", "r", "c", "/", "a", ".", "c", " ", "\\", "\n",
      " ", "i", "n", "c", "/", "b", ".", "h", "\n">>

TokCc == <<"c", "c">>
TokO == <<"-", "o">>
TokM == <<"-", "M">>
TokC == <<"-", "c">>
SrcA == <<"a", ".", "c">>
SrcB == <<"b", ".", "c">>
SrcC == <<"c", ".", "c">>
SrcD == <<"d", ".", "c">>
SrcE == <<"e", ".", "c">>
SrcF == <<"f", ".", "c">>

Has(argv, tok) == \E i \in DOMAIN argv : argv[i] = tok

\* std::process::Output of the child for an argv, or a spawn failure: only
\* cc is installed; a.c and b.c compile (b.c with a warning on stderr), c.c
\* fails to compile, e.c makes the compiler print nothing, and without a known
\* source file the compiler complains and fails.
RunChild(argv) ==
    IF argv[1] # TokCc THEN [spawned |-> FALSE, status |-> 0, out |-> <<>>, err |-> <<>>]
    ELSE IF Has(argv, SrcC)
         THEN [spawned |-> TRUE, status |-> 1, out |-> <<>>,
               err |-> <<"e", "1", "\n">>]
    ELSE IF Has(argv, SrcE)
         THEN [spawned |-> TRUE, status |-> 0, out |-> <<>>, err |-> <<>>]
    ELSE IF Has(argv, SrcB)
         THEN [spawned |-> TRUE, status |-> 0, out |-> DepsOfB,
               err |-> <<"w", "1", "\n">>]
    ELSE IF Has(argv, SrcA)
         THEN [spawned |-> TRUE, status |-> 0, out |-> DepsOfA, err |-> <<>>]
    ELSE [spawned |-> TRUE, status |-> 1, out |-> <<>>,
          err |-> <<"e", "0", "\n">>]

-----------------------------------------------------------------------------
(* parse_dependency and dump_dependency *)

RECURSIVE ParseLines(_)
ParseLines(lines) ==
    IF lines = <<>> THEN <<>>
    ELSE LET matches == Captures(Head(lines))
         IN  (IF matches.some /\ PathExists(matches.val)
              THEN <<Canonicalize(matches.val)>>
              ELSE <<>>) \o ParseLines(Tail(lines))

\* parse_dependency: the canonical path of every captured text that exists.
ParseDependency(output) == ParseLines(Lines(output))

\* Vec::remove(i), i counted from 0 as in the source, for i < len (RewriteArgs
\* tests the bound beyond which it panics).
VecRemove(v, i) == SubSeq(v, 1, i) \o SubSeq(v, i + 2, Len(v))

\* Vec::insert(i, x), i counted from 0
VecInsert(v, i, x) == SubSeq(v, 1, i) \o <<x>> \o SubSeq(v, i + 1, Len(v))

\* Iterator::position of "-o", counted from 0
PositionOfO(args) ==
    LET hits == {i \in DOMAIN args : args[i] = TokO}
    IN  IF hits = {} THEN None
        ELSE Some((CHOOSE i \in hits : \A i2 \in hits : i <= i2) - 1)

\* BaseArgs with the two fields consulted in the other order.
BaseArgsCommandFirst(command) ==
    IF command.command.some THEN
        LET split == ShellSplit(command.command.val)
        IN  IF split.ok THEN [kind |-> "Ok", args |-> split.words]
            ELSE [kind |-> "ShellWordsParseError", args |-> <<>>]
    ELSE IF command.arguments.some THEN [kind |-> "Ok", args |-> command.arguments.val]
    ELSE [kind |-> "CommandFormatError", args |-> <<>>]

\* Lines 112-118: Result<Vec<String>> as [kind, args], kind "Ok" or the Error.
BaseArgs(command) ==
    IF command.arguments.some THEN [kind |-> "Ok", args |-> command.arguments.val]
    ELSE IF command.command.some THEN
        LET split == ShellSplit(command.command.val)
        IN  IF split.ok THEN [kind |-> "Ok", args |-> split.words]
            ELSE [kind |-> "ShellWordsParseError", args |-> <<>>]
    ELSE [kind |-> "CommandFormatError", args |-> <<>>]

\* Lines 119-139: the argv with the first -o and its operand removed and -M
\* inserted after the executable; panic = TRUE where assert_ne!, Vec::remove
\* or Vec::insert panics.
RewriteArgs(args) ==
    LET Panic == [panic |-> TRUE, args |-> <<>>]
        o == PositionOfO(args)
    IN  IF Len(args) = 0 THEN Panic
        ELSE IF o.some /\ o.val + 1 >= Len(args) THEN Panic
        ELSE LET cut == IF o.some THEN VecRemove(VecRemove(args, o.val + 1), o.val)
                        ELSE args
             IN  IF 1 > Len(cut) THEN Panic
                 ELSE [panic |-> FALSE, args |-> VecInsert(cut, 1, TokM)]

\* dump_dependency. kind is "Ok" (paths), "Err" (err) or "Panic"; argv is the
\* vector given to Command::new, if the call got there, and started whether
\* the child ran; forwarded is what the call wrote to the process's stdout;
\* warned is whether it logged "No dependency found".
DumpDependency(command) ==
    LET base == BaseArgs(command)
        Outcome(kind, err, paths, argv, started, forwarded) ==
            [kind |-> kind, err |-> err, paths |-> paths, argv |-> argv,
             started |-> started, forwarded |-> forwarded,
             warned |-> kind = "Ok" /\ paths = <<>>]
    IN  IF base.kind # "Ok" THEN Outcome("Err", base.kind, <<>>, None, FALSE, <<>>)
        ELSE LET rw == RewriteArgs(base.args)
             IN  IF rw.panic THEN Outcome("Panic", "", <<>>, None, FALSE, <<>>)
                 ELSE LET output == RunChild(rw.args)
                          argv == Some(rw.args)
                      IN  IF ~output.spawned
                          THEN Outcome("Err", "IoError", <<>>, argv, FALSE, <<>>)
                          ELSE IF output.status # 0
                          THEN Outcome("Err", "ExitStatusError", <<>>, argv, TRUE, output.err)
                          ELSE IF Len(output.out) = 0
                          THEN Outcome("Panic", "", <<>>, argv, TRUE, output.err)
                          ELSE LET result == ParseDependency(output.out)
                               IN  Outcome("Ok", "", result, argv, TRUE, output.err)

-----------------------------------------------------------------------------
(* The databases and flags a run starts from *)

MaxEntries == 3
MaxArgs == 4

Command(file, arguments, command) ==
    [directory |-> <<"/", "w">>, command |-> command, arguments |-> arguments,
     file |-> file]

\* cc -c 'b.c' -o b.o
CmdB ==
    <<"c", "c", " ", "-", "c", " ", "'", "b", ".", "c", "'", " ", "-", "o", " ",
      "b", ".", "o">>
\* cc c.c
CmdC == <<"c", "c", " ", "c", ".", "c">>
\* cc e.c
CmdE == <<"c", "c", " ", "e", ".", "c">>
\* cc 'f.c   (the quote is never closed)
CmdF == <<"c", "c", " ", "'", "f", ".", "c">>

\* The entries databases are made of: a.c with structured arguments, b.c with
\* a shell command, a second entry for a.c carrying both fields, c.c whose
\* compilation fails, d.c with neither field, e.c for which the compiler
\* prints nothing, f.c with a command that does not tokenise.
Catalogue ==
    { Command(SrcA, Some(<<TokCc, TokC, SrcA, TokO, <<"a", ".", "o">>,
                           <<"-", "I", "i", "n", "c">>>>), None),
      Command(SrcB, None, Some(CmdB)),
      Command(SrcA, Some(<<TokCc, TokC, SrcA>>), Some(CmdC)),
      Command(SrcC, Some(<<TokCc, SrcC>>), None),
      Command(SrcD, None, None),
      Command(SrcE, None, Some(CmdE)),
      Command(SrcF, None, Some(CmdF)) }

RECURSIVE SeqsUpTo(_, _)
SeqsUpTo(S, n) ==
    IF n = 0 THEN {<<>>}
    ELSE LET shorter == SeqsUpTo(S, n - 1)
         IN  shorter \cup {Append(q, x) : q \in {r \in shorter : Len(r) = n - 1}, x \in S}

Databases == SeqsUpTo(Catalogue, MaxEntries)

Flags == [exclude_system_headers : BOOLEAN, headers : BOOLEAN]

Pending == [kind |-> "Pending", err |-> "", paths |-> <<>>]

Start(database, flags) ==
    /\ db = database
    /\ cli = flags
    /\ pc = "start"
    /\ k = 1
    /\ done_list = {}
    /\ compile_commands = <<>>
    /\ dependencies = <<>>
    /\ invoked = <<>>
    /\ panicked = FALSE
    /\ j = 1
    /\ dependency_list = {}
    /\ stdout = <<>>
    /\ reported = <<>>
    /\ log = <<>>

Init == \E database \in Databases, flags \in Flags : Start(database, flags)

\* Databases whose first entry runs cc with an arbitrary tail of arguments
\* over a few tokens (or has an empty vector), followed by a second entry for
\* the same file and by an entry whose compiler is not installed.
ArgTokens == {TokO, TokC, SrcA}

ArgVectors == {<<TokCc>> \o tail : tail \in SeqsUpTo(ArgTokens, MaxArgs)} \cup {<<>>}

ArgDatabases ==
    { <<Command(SrcA, Some(v), None),
        Command(SrcA, Some(<<TokCc, TokC, SrcA>>), Some(CmdC)),
        Command(SrcC, Some(<<<<"g", "c", "c">>, SrcC>>), None)>> :
      v \in ArgVectors }

InitArgs ==
    \E database \in ArgDatabases :
        Start(database, [exclude_system_headers |-> FALSE, headers |-> FALSE])

-----------------------------------------------------------------------------
(* main *)

\* Line 168: assert!(compile_commands.len() > 0)
CheckNonEmpty ==
    /\ pc = "start"
    /\ pc' = IF Len(db) > 0 THEN "dedup" ELSE "aborted"
    /\ UNCHANGED <<db, cli, k, done_list, compile_commands, dependencies, invoked,
                   panicked, j, dependency_list, stdout, reported, log>>

\* DedupKeep without the insertion into done_list.
DedupKeepForgets ==
    /\ pc = "dedup"
    /\ k <= Len(db)
    /\ db[k].file \notin done_list
    /\ compile_commands' = Append(compile_commands, k)
    /\ k' = k + 1
    /\ UNCHANGED <<db, cli, pc, done_list, dependencies, invoked, panicked, j,
                   dependency_list, stdout, reported, log>>

\* Lines 174-184, an iteration that keeps the entry
DedupKeep ==
    /\ pc = "dedup"
    /\ k <= Len(db)
    /\ db[k].file \notin done_list
    /\ done_list' = done_list \cup {db[k].file}
    /\ compile_commands' = Append(compile_commands, k)
    /\ k' = k + 1
    /\ UNCHANGED <<db, cli, pc, dependencies, invoked, panicked, j,
                   dependency_list, stdout, reported, log>>

\* Lines 174-184, an iteration that skips the entry with a warning
DedupSkip ==
    /\ pc = "dedup"
    /\ k <= Len(db)
    /\ db[k].file \in done_list
    /\ log' = Append(log, [level |-> "warn", what |-> "Another command for same file",
                           entry |-> k])
    /\ k' = k + 1
    /\ UNCHANGED <<db, cli, pc, done_list, compile_commands, dependencies, invoked,
                   panicked, j, dependency_list, stdout, reported>>

\* Lines 185-189: the loop is over and the parallel map begins
StartParallel ==
    /\ pc = "dedup"
    /\ k > Len(db)
    /\ pc' = "parallel"
    /\ dependencies' = [i \in 1 .. Len(compile_commands) |-> Pending]
    /\ invoked' = [i \in 1 .. Len(compile_commands) |-> None]
    /\ UNCHANGED <<db, cli, k, done_list, compile_commands, panicked, j,
                   dependency_list, stdout, reported, log>>

\* Lines 190-194: a pool thread runs the closure for entry i, whenever it gets
\* to it. A panic leaves the slot without a result.
Worker(i) ==
    /\ pc = "parallel"
    /\ dependencies[i] = Pending
    /\ \E r \in {DumpDependency(db[compile_commands[i]])} :
           /\ dependencies' =
                  [dependencies EXCEPT ![i] = [kind |-> r.kind, err |-> r.err,
                                               paths |-> r.paths]]
           /\ invoked' = [invoked EXCEPT ![i] = r.argv]
           /\ stdout' = stdout \o r.forwarded
           /\ panicked' = (panicked \/ r.kind = "Panic")
           /\ log' = IF r.warned
                     THEN Append(log, [level |-> "warn", what |-> "No dependency found",
                                       entry |-> compile_commands[i]])
                     ELSE log
    /\ UNCHANGED <<db, cli, pc, k, done_list, compile_commands, j,
                   dependency_list, reported>>

\* Line 195: collect() returns once every closure has returned
Collect ==
    /\ pc = "parallel"
    /\ ~panicked
    /\ \A i \in DOMAIN dependencies : dependencies[i] # Pending
    /\ pc' = "aggregate"
    /\ UNCHANGED <<db, cli, k, done_list, compile_commands, dependencies, invoked,
                   panicked, j, dependency_list, stdout, reported, log>>

\* Line 195: a closure's panic is resumed on the main thread, which unwinds
\* out of main; closures the pool had not started may never run.
Unwind ==
    /\ pc = "parallel"
    /\ panicked
    /\ pc' = "aborted"
    /\ UNCHANGED <<db, cli, k, done_list, compile_commands, dependencies, invoked,
                   panicked, j, dependency_list, stdout, reported, log>>

\* The literal of line 203
SystemPrefix == <<"/", "u", "s", "r">>

\* Retained with a path that has no extension dropped by the headers filter.
RetainedStrict(v) ==
    IF cli.exclude_system_headers /\ PathStartsWith(v, SystemPrefix)
    THEN FALSE
    ELSE IF cli.headers
         THEN LET ext == Extension(v)
              IN  IF ext.some THEN StrStartsWith(ext.val, <<"h">>) ELSE FALSE
         ELSE TRUE

\* Retained with the system prefix compared as text instead of by component.
RetainedTextPrefix(v) ==
    IF cli.exclude_system_headers /\ StrStartsWith(v, SystemPrefix)
    THEN FALSE
    ELSE IF cli.headers
         THEN LET ext == Extension(v)
              IN  IF ext.some THEN StrStartsWith(ext.val, <<"h">>) ELSE TRUE
         ELSE TRUE

\* Lines 202-214: whether the loop body reaches dependency_list.insert(v)
Retained(v) ==
    IF cli.exclude_system_headers /\ PathStartsWith(v, SystemPrefix)
    THEN FALSE
    ELSE IF cli.headers
         THEN LET ext == Extension(v)
              IN  IF ext.some THEN StrStartsWith(ext.val, <<"h">>) ELSE TRUE
         ELSE TRUE

\* Lines 198-216, an iteration over an Ok result
AggregateOk ==
    /\ pc = "aggregate"
    /\ j <= Len(dependencies)
    /\ dependencies[j].kind = "Ok"
    /\ dependency_list' =
           dependency_list \cup
               {dependencies[j].paths[n] : n \in
                    {m \in DOMAIN dependencies[j].paths : Retained(dependencies[j].paths[m])}}
    /\ j' = j + 1
    /\ UNCHANGED <<db, cli, pc, k, done_list, compile_commands, dependencies, invoked,
                   panicked, stdout, reported, log>>

\* Lines 198-220, an iteration over an Err result
AggregateErr ==
    /\ pc = "aggregate"
    /\ j <= Len(dependencies)
    /\ dependencies[j].kind = "Err"
    /\ log' = Append(log, [level |-> "error", what |-> dependencies[j].err,
                           entry |-> compile_commands[j]])
    /\ j' = j + 1
    /\ UNCHANGED <<db, cli, pc, k, done_list, compile_commands, dependencies, invoked,
                   panicked, dependency_list, stdout, reported>>

\* SortPaths with the paths compared as text.
RECURSIVE SortPathsAsText(_)
SortPathsAsText(S) ==
    IF S = {} THEN <<>>
    ELSE LET least == CHOOSE p \in S : \A q \in S : ~StrLess(q, p)
         IN  <<least>> \o SortPathsAsText(S \ {least})

\* Vec::sort over &PathBuf: ascending in the order of Path
RECURSIVE SortPaths(_)
SortPaths(S) ==
    IF S = {} THEN <<>>
    ELSE LET least == CHOOSE p \in S : \A q \in S : ~PathLess(q, p)
         IN  <<least>> \o SortPaths(S \ {least})

\* println!("{}", path.display()) for each path of a sequence
RECURSIVE PrintLines(_)
PrintLines(paths) ==
    IF paths = <<>> THEN <<>>
    ELSE Head(paths) \o <<"\n">> \o PrintLines(Tail(paths))

\* Lines 222-226: sort the set and print it
Report ==
    /\ pc = "aggregate"
    /\ j > Len(dependencies)
    /\ reported' = SortPaths(dependency_list)
    /\ stdout' = stdout \o PrintLines(SortPaths(dependency_list))
    /\ pc' = "done"
    /\ UNCHANGED <<db, cli, k, done_list, compile_commands, dependencies, invoked,
                   panicked, j, dependency_list, log>>

Next ==
    \/ CheckNonEmpty
    \/ DedupKeep
    \/ DedupSkip
    \/ StartParallel
    \/ \E i \in DOMAIN dependencies : Worker(i)
    \/ Collect
    \/ Unwind
    \/ AggregateOk
    \/ AggregateErr
    \/ Report

Spec == Init /\ [][Next]_vars

SpecArgs == InitArgs /\ [][Next]_vars

-----------------------------------------------------------------------------
(* Vocabulary of the properties *)

\* The entry behind slot i of the parallel map
Entry(i) == db[compile_commands[i]]

\* The closure for slot i has run (to a result or to a panic)
Ran(i) == dependencies[i] # Pending

\* The run is past the parallel map's start, so the slots exist
Slots == DOMAIN dependencies

\* Every path some successful entry produced
Produced ==
    UNION {{dependencies[i].paths[n] : n \in DOMAIN dependencies[i].paths} :
           i \in {s \in Slots : dependencies[s].kind = "Ok"}}

ReportedSet == {reported[n] : n \in DOMAIN reported}

UnderSystemPrefix(p) == PathStartsWith(p, SystemPrefix)

\* The extension exists and begins with h
HasHExtension(p) == Extension(p).some /\ StrStartsWith(Extension(p).val, <<"h">>)

PathAB == <<"/", "a", "/", "b">>
PathADashB == <<"/", "a", "-", "b">>
PathUsrV == <<"/", "u", "s", "r", "/", "v">>
PathUsrxK == <<"/", "u", "s", "r", "x", "/", "k", ".", "h", "p", "p">>
PathWSrcA == <<"/", "w", "/", "s", "r", "c", "/", "a", ".", "c">>
PathWIncA == <<"/", "w", "/", "i", "n", "c", "/", "a", ".", "h">>

-----------------------------------------------------------------------------
(* C1 *)

\* The child of slot i ran, exited with status zero and printed nothing
EmptyOutputOnSuccess(i) ==
    /\ invoked[i].some
    /\ LET output == RunChild(invoked[i].val)
       IN  output.spawned /\ output.status = 0 /\ output.out = <<>>

\* C1: an entry whose subprocess exits with status zero and empty stdout ends
\* as a per-entry error with no paths, and the run is not aborted.
C1_EmptyOutputIsPerEntryError ==
    \A i \in Slots :
        (Ran(i) /\ EmptyOutputOnSuccess(i)) =>
            /\ dependencies[i].kind = "Err"
            /\ dependencies[i].paths = <<>>
            /\ pc # "aborted"

-----------------------------------------------------------------------------
(* C2 *)

\* The tokens of v with the first -o and the token after it left out
RECURSIVE WithoutFirstOPair(_)
WithoutFirstOPair(v) ==
    IF v = <<>> THEN <<>>
    ELSE IF Head(v) = TokO THEN (IF Len(v) >= 2 THEN Tail(Tail(v)) ELSE <<>>)
    ELSE <<Head(v)>> \o WithoutFirstOPair(Tail(v))

ExpectedInvocation(args) == <<args[1], TokM>> \o WithoutFirstOPair(Tail(args))

\* C2: for every non-empty argument vector the invocation handed to the
\* subprocess is [args[0], -M] followed by the tokens from index 1 onward with
\* the first -o and its following token removed, wherever that -o stands.
C2_RewrittenInvocationShape ==
    \A i \in Slots :
        (Ran(i) /\ Entry(i).arguments.some /\ Entry(i).arguments.val # <<>>) =>
            invoked[i] = Some(ExpectedInvocation(Entry(i).arguments.val))

-----------------------------------------------------------------------------
(* C3 *)

\* C3 as stated: with headers set (and the other filter off) a produced path
\* is in the output exactly when it has an extension beginning with h.
C3_OnlyHExtensionsReported ==
    (pc = "done" /\ cli.headers /\ ~cli.exclude_system_headers) =>
        \A p \in Produced : (p \in ReportedSet) <=> HasHExtension(p)

\* C3 amended: with headers set, every path in the output has no extension or
\* one beginning with h, and with the other filter off every produced path
\* that has no extension or one beginning with h is in the output.
C3_NoOtherExtensionReported ==
    (pc = "done" /\ cli.headers) =>
        /\ \A p \in ReportedSet : ~Extension(p).some \/ HasHExtension(p)
        /\ ~cli.exclude_system_headers =>
               \A p \in Produced :
                   (~Extension(p).some \/ HasHExtension(p)) => p \in ReportedSet

C3_Witness ==
    /\ pc = "done"
    /\ cli.headers
    /\ ~cli.exclude_system_headers
    /\ PathUsrV \in Produced /\ PathUsrV \in ReportedSet
    /\ PathUsrxK \in ReportedSet
    /\ PathWSrcA \in Produced /\ PathWSrcA \notin ReportedSet

-----------------------------------------------------------------------------
(* C4 *)

\* C4 as stated: consecutive output lines increase strictly as text.
C4_LinesIncreaseAsText ==
    pc = "done" =>
        \A n \in 1 .. Len(reported) - 1 : StrLess(reported[n], reported[n + 1])

\* C4 amended: consecutive output lines increase strictly in the order of
\* Path (component by component), and no line occurs twice.
C4_LinesIncreaseAsPaths ==
    pc = "done" =>
        /\ \A n \in 1 .. Len(reported) - 1 : PathLess(reported[n], reported[n + 1])
        /\ \A n, m \in DOMAIN reported : n # m => reported[n] # reported[m]
        /\ ReportedSet = dependency_list

C4_Witness ==
    /\ pc = "done"
    /\ \E n \in 1 .. Len(reported) - 1 :
           reported[n] = PathAB /\ reported[n + 1] = PathADashB

-----------------------------------------------------------------------------
(* C5 *)

\* C5: when the child prints the rule  a.o: src/a.c \ / inc/a.h \ / inc/b.h
\* and src/a.c and inc/a.h exist while inc/b.h does not, the entry's result
\* is exactly the canonical src/a.c followed by the canonical inc/a.h.
C5_ExampleRuleParsed ==
    \A i \in Slots :
        (dependencies[i].kind = "Ok" /\ RunChild(invoked[i].val).out = DepsOfA) =>
            dependencies[i].paths = <<PathWSrcA, PathWIncA>>

-----------------------------------------------------------------------------
(* C6 *)

\* What the calls write to stdout when they run one after another in input
\* order
RECURSIVE ForwardedInOrder(_)
ForwardedInOrder(i) ==
    IF i > Len(compile_commands) THEN <<>>
    ELSE DumpDependency(Entry(i)).forwarded \o ForwardedInOrder(i + 1)

\* C6: the bytes written to standard output do not depend on the schedule of
\* the pool: a finished run has written what the schedule that runs the
\* entries in input order writes.
C6_StdoutIndependentOfSchedule ==
    pc = "done" => stdout = ForwardedInOrder(1) \o PrintLines(reported)

-----------------------------------------------------------------------------
(* C7 *)

NonZeroExit(i) ==
    dependencies[i].kind = "Err" /\ dependencies[i].err = "ExitStatusError"

\* C7: in a database of at least two entries of which one exits with non-zero
\* status, that entry is logged and contributes nothing, the run is not
\* aborted, and a finished run prints every retained path of every
\* successful entry.
C7_RunSurvivesNonZeroExit ==
    (Len(db) >= 2 /\ \E i \in Slots : NonZeroExit(i)) =>
        /\ pc # "aborted"
        /\ \A i \in Slots : NonZeroExit(i) => dependencies[i].paths = <<>>
        /\ pc = "done" =>
               /\ \A i \in Slots :
                      NonZeroExit(i) =>
                          \E n \in DOMAIN log :
                              /\ log[n].level = "error"
                              /\ log[n].entry = compile_commands[i]
               /\ \A p \in Produced : Retained(p) => p \in ReportedSet

-----------------------------------------------------------------------------
(* C8 *)

\* C8: the sequence handed to the parallel phase holds exactly one entry per
\* distinct file, the first of that file in input order, in input order.
C8_FirstOccurrencePerFile ==
    pc \notin {"start", "dedup"} =>
        /\ \A a, b \in DOMAIN compile_commands :
               a < b => compile_commands[a] < compile_commands[b]
        /\ \A n \in DOMAIN db :
               Cardinality({a \in DOMAIN compile_commands :
                                db[compile_commands[a]].file = db[n].file}) = 1
        /\ \A a \in DOMAIN compile_commands :
               /\ compile_commands[a] \in DOMAIN db
               /\ \A n \in 1 .. compile_commands[a] - 1 :
                      db[n].file # db[compile_commands[a]].file

C8_Witness ==
    /\ pc = "parallel"
    /\ Len(db) = 3
    /\ db[1].file = db[2].file
    /\ db[1] # db[2]
    /\ compile_commands = <<1, 3>>

-----------------------------------------------------------------------------
(* C9 *)

\* C9: with exclude_system_headers set, the output of a finished run holds the
\* produced paths that are not under /usr, and with headers set as well those
\* of them that also pass the headers filter: each filter decides on its own.
C9_FiltersCompose ==
    (pc = "done" /\ cli.exclude_system_headers) =>
        ReportedSet =
            {p \in Produced :
                 /\ ~UnderSystemPrefix(p)
                 /\ cli.headers => (~Extension(p).some \/ HasHExtension(p))}

C9_Witness ==
    /\ pc = "done"
    /\ cli.exclude_system_headers
    /\ cli.headers
    /\ PathUsrV \in Produced /\ PathUsrV \notin ReportedSet
    /\ PathUsrxK \in ReportedSet
    /\ PathAB \in ReportedSet
    /\ PathWSrcA \in Produced /\ PathWSrcA \notin ReportedSet

-----------------------------------------------------------------------------
(* C10 *)

HasNeither(e) == ~e.arguments.some /\ ~e.command.some
HasBoth(e) == e.arguments.some /\ e.command.some

\* C10: an entry ends in CommandFormatError exactly when it has neither
\* command nor arguments, no subprocess is invoked for it then, and an entry
\* with both fields behaves as the same entry without its command.
C10_MissingCommand ==
    \A i \in Slots :
        Ran(i) =>
            /\ (dependencies[i].kind = "Err" /\ dependencies[i].err = "CommandFormatError")
                   <=> HasNeither(Entry(i))
            /\ HasNeither(Entry(i)) => invoked[i] = None
            /\ HasBoth(Entry(i)) =>
                   LET alone == DumpDependency([Entry(i) EXCEPT !.command = None])
                   IN  /\ invoked[i] = alone.argv
                       /\ dependencies[i].kind = alone.kind
                       /\ dependencies[i].paths = alone.paths

C10_Witness ==
    /\ \E i \in Slots : Ran(i) /\ HasNeither(Entry(i))
    /\ \E i \in Slots : Ran(i) /\ HasBoth(Entry(i)) /\ dependencies[i].kind = "Ok"
====
